---- MODULE Spec2Model ----
(***************************************************************************)
(* Model of autogluon/searcher/skopt_searcher.py: the SKoptSearcher, its   *)
(* result store (_results, an OrderedDict keyed by json.dumps(config)),    *)
(* and its four operations get_config, default_config, random_config and  *)
(* update.  The skopt Optimizer and the ConfigSpace library are external:  *)
(* the optimizer's ask/tell outcomes are nondeterministic inputs, the      *)
(* configuration space is a small conditional space.                       *)
(*                                                                         *)
(* A configuration (a Python dict) is a sequence of <<name, value>> pairs, *)
(* in the dict's insertion order.  The store is a sequence of              *)
(* <<key, reward>> pairs in insertion order.                               *)
(***************************************************************************)
EXTENDS Integers, Sequences, FiniteSets, TLC

VARIABLES
    configspace, \* the constructor's argument: the space's hyperparameter
                 \* objects, in the order of get_hyperparameter_names()
    bayes_optimizer, \* dimensions of the Optimizer built by __init__, or None
    init_raised, \* exception __init__ propagated, or "none"
    results,     \* self._results: OrderedDict  json key -> reward
    told,        \* observations accepted by bayes_optimizer.tell: <<point, y>>
    pc,          \* "idle", or "random_config" while the rejection loop runs;
                 \* "new" before __init__, "failed" after __init__ raised
    new_config,  \* random_config's local variable while the loop runs
    op,          \* the call in progress, or the last call finished
    ret,         \* configuration returned by the last finished call, or None
    raised,      \* exception the last finished call propagated, or "none"
    warned,      \* whether the current/last call emitted warnings.warn
    pre,         \* the store as it was when the current/last call started
    arg,         \* <<config, reward>> passed to the last update, or None
    issued,      \* every configuration returned to the caller so far
    passed,      \* every configuration passed to update so far
    calls,       \* number of calls the scheduler has made
    nGet,        \* number of configurations get_config has returned
    via,         \* where the returned configuration came from: "default",
                 \* "single", "batch", "random"; "none" if nothing returned
    why,         \* why get_config went on to random_config: "ask_error",
                 \* "invalid", "duplicates"; "none" if it did not
    trace,       \* kept by get_config_traced for its current/last call:
                 \* asks, what bayes_optimizer.ask gave, in order, as
                 \* [n, exc, points]; decoded, the positions of the batch
                 \* handed to skopt2config, in order
    onlyGet,     \* TRUE while the caller has used only get_config, and update
                 \* with exactly the configurations it was handed
    threads,     \* callers that do not wait for one another: for each, the
                 \* line its call has reached and the call's local variables
    overlap,     \* whether a call was started while another was in progress
    nHanded      \* number of configurations returned to those callers

vars == <<configspace, bayes_optimizer, init_raised, results, told, pc, new_config, op, ret, raised, warned, pre, arg,
          issued, passed, calls, nGet, via, why, trace, onlyGet, threads,
          overlap, nHanded>>

----------------------------------------------------------------------------
(* Bounds of the model *)

\* largest max_tries a caller passes to get_config
MaxTries == 2
\* largest max_tries passed to the one call of get_config that is traced
MaxBatch == 3
\* number of calls the scheduler makes on one searcher
MaxCalls == 4
\* number of calls that callers who do not wait for one another make
MaxConcCalls == 3
\* rewards a caller reports
Rewards == {0, 1}
\* largest number of hyperparameters of a space handed to the constructor
MaxHps == 2

None == <<>>

\* callers of one searcher that do not wait for one another
Threads == {1, 2}

\* a caller between two calls; ret is what its last call returned and from
\* the line that wrote the record of ret; op is the call in progress
IdleThread ==
    [pc |-> "idle", op |-> "none", new_config |-> None, new_points |-> <<>>,
     i |-> 0, max_tries |-> 0, ret |-> None, from |-> "none"]

\* no call of bayes_optimizer.ask on record
NoTrace == [asks |-> <<>>, decoded |-> <<>>]

----------------------------------------------------------------------------
(* Python dicts as sequences of <<name, value>> pairs *)

Range(s) == {s[i] : i \in DOMAIN s}

Has(config, hp) == \E i \in DOMAIN config : config[i][1] = hp

Get(config, hp) == config[CHOOSE i \in DOMAIN config : config[i][1] = hp][2]

\* dict equality of Python: same items, whatever the insertion order
DictEq(c1, c2) == Range(c1) = Range(c2)

\* the copies of a dict that list the same items in another order
Reorderings(config) ==
    {[i \in DOMAIN config |-> config[f[i]]] : f \in Permutations(DOMAIN config)}

RECURSIVE JoinItems(_)
JoinItems(config) ==
    IF config = <<>> THEN ""
    ELSE LET item == "\"" \o config[1][1] \o "\": " \o ToString(config[1][2])
         IN  IF Len(config) = 1 THEN item
             ELSE item \o ", " \o JoinItems(Tail(config))

\* json.dumps(config): the items in the dict's insertion order, no sort_keys
json_dumps(config) == "{" \o JoinItems(config) \o "}"

\* OrderedDict
Keys(d) == {d[i][1] : i \in DOMAIN d}

DictGet(d, k) == d[CHOOSE i \in DOMAIN d : d[i][1] = k][2]

\* d[k] = v : overwrite in place, or append a new key at the end
DictSet(d, k, v) ==
    IF k \in Keys(d)
    THEN [i \in DOMAIN d |-> IF d[i][1] = k THEN <<k, v>> ELSE d[i]]
    ELSE Append(d, <<k, v>>)

----------------------------------------------------------------------------
(* The configuration space: "a" categorical {0,1}; "b" categorical {0,1},  *)
(* active only under the condition a = 1.                                  *)

hp_ordering == <<"a", "b">>

Choices == {0, 1}

\* the points the optimizer can propose: one value per dimension
Points == {<<x, y>> : x \in Choices, y \in Choices}

is_valid_configuration_lax(config) == TRUE

\* is_valid_configuration: legal values, "a" set, "b" set iff a = 1
is_valid_configuration(config) ==
    /\ \A i \in DOMAIN config : config[i][2] \in Choices
    /\ \A i, j \in DOMAIN config : config[i][1] = config[j][1] => i = j
    /\ \A i \in DOMAIN config : config[i][1] \in Range(hp_ordering)
    /\ Has(config, "a")
    /\ Has(config, "b") <=> Get(config, "a") = 1

\* what get_dictionary() can return for a valid Configuration of the space
SpaceConfigs ==
    {<<<<"a", 0>>>>} \cup {<<<<"a", 1>>, <<"b", y>>>> : y \in Choices}

\* configspace.sample_configuration().get_dictionary()
sample_configuration == SpaceConfigs

\* configspace.get_default_configuration().get_dictionary()
get_default_configuration == <<<<"a", 1>>, <<"b", 0>>>>

\* skopt2config: every hyperparameter of hp_ordering set from the point
skopt2config(point) ==
    [i \in 1..Len(point) |-> <<hp_ordering[i], point[i]>>]

\* config2skopt: config[hp] for every hp of hp_ordering; KeyError if absent
config2skopt(config) ==
    IF \A i \in DOMAIN hp_ordering : Has(config, hp_ordering[i])
    THEN [exc |-> "none",
          point |-> [i \in DOMAIN hp_ordering |-> Get(config, hp_ordering[i])]]
    ELSE [exc |-> "KeyError", point |-> <<>>]

----------------------------------------------------------------------------
(* __init__, lines 64-85: one skopt dimension per hyperparameter, chosen   *)
(* by looking for a word in the lower-cased name of the object's type.     *)

\* the hyperparameter classes of ConfigSpace handed to the constructor
TypeNames ==
    {"UniformIntegerHyperparameter", "UniformFloatHyperparameter",
     "CategoricalHyperparameter", "OrdinalHyperparameter", "Constant"}

HpObjects == [type : TypeNames, log : BOOLEAN]

\* str(type(hp_obj)).lower(), as the words the class name is made of
hp_type(hp_obj) ==
    CASE hp_obj.type = "UniformIntegerHyperparameter" ->
            {"uniform", "integer", "hyperparameter"}
      [] hp_obj.type = "UniformFloatHyperparameter" ->
            {"uniform", "float", "hyperparameter"}
      [] hp_obj.type = "CategoricalHyperparameter" ->
            {"categorical", "hyperparameter"}
      [] hp_obj.type = "OrdinalHyperparameter" ->
            {"ordinal", "hyperparameter"}
      [] OTHER -> {"constant"}

Dimension(class, prior) == [class |-> class, prior |-> prior]

hp_dimension_no_ordinal(hp_obj) ==
    IF "integer" \in hp_type(hp_obj) THEN Dimension("Integer", "uniform")
    ELSE IF "float" \in hp_type(hp_obj)
    THEN IF hp_obj.log THEN Dimension("Real", "log-uniform")
         ELSE Dimension("Real", "uniform")
    ELSE IF "categorical" \in hp_type(hp_obj)
    THEN Dimension("Categorical", "none")
    ELSE Dimension("ValueError", "none")

\* lines 70-83: the if/elif chain; class "ValueError" stands for the raise
hp_dimension(hp_obj) ==
    IF "integer" \in hp_type(hp_obj) THEN Dimension("Integer", "uniform")
    ELSE IF "float" \in hp_type(hp_obj)
    THEN IF hp_obj.log THEN Dimension("Real", "log-uniform")
         ELSE Dimension("Real", "uniform")
    ELSE IF "categorical" \in hp_type(hp_obj)
    THEN Dimension("Categorical", "none")
    ELSE IF "ordinal" \in hp_type(hp_obj)
    THEN Dimension("Categorical", "none")
    ELSE Dimension("ValueError", "none")

\* lines 67-85: the loop over hp_ordering and the Optimizer built from it
skopt_hpspace(space) ==
    IF \E i \in DOMAIN space : hp_dimension(space[i]).class = "ValueError"
    THEN [exc |-> "ValueError", dims |-> None]
    ELSE [exc |-> "none", dims |-> [i \in DOMAIN space |-> hp_dimension(space[i])]]

\* the space of this model: "a" and "b" are both categorical
TheSpace ==
    [i \in DOMAIN hp_ordering |->
        [type |-> "CategoricalHyperparameter", log |-> FALSE]]

----------------------------------------------------------------------------
(* The skopt Optimizer: ask(n_points) returns n_points points or raises;   *)
(* ValueError is the error get_config handles, RuntimeError stands for any *)
(* other exception class.                                                  *)

OptimizerErrors == {"ValueError", "RuntimeError"}

\* n is the n_points asked for
AskOutcomes(n_points) ==
    {[n |-> n_points, exc |-> e, points |-> <<>>] : e \in OptimizerErrors}
    \cup {[n |-> n_points, exc |-> "none", points |-> p] :
             p \in [1..n_points -> Points]}

TellOutcomes == {"none"} \cup OptimizerErrors

----------------------------------------------------------------------------
(* get_config, lines 103-122: the body of the try statement.  An outcome   *)
(* says how the try statement ends: "return" a configuration, "raise" an    *)
(* exception to the caller, or go on to "random" (line 123).               *)

\* cand is the last candidate the try statement decoded, None if none;
\* asks is filled in by try_outcomes, decoded by batch_loop
Outcome(kind, config, exc, warn, from, reason, cand) ==
    [kind |-> kind, config |-> config, exc |-> exc, warned |-> warn,
     via |-> from, why |-> reason, cand |-> cand, asks |-> <<>>,
     decoded |-> <<>>]

NotEncountered_unchecked(res, config) == TRUE

\* the membership test  json.dumps(new_config) not in self._results.keys()
NotEncountered(res, config) == json_dumps(config) \notin Keys(res)

\* an exception raised inside the try: ValueError is caught (line 121) and
\* warned about (line 122), anything else propagates to the caller
except_clause(exc, reason, cand) ==
    IF exc = "ValueError"
    THEN Outcome("random", None, "none", TRUE, "none", reason, cand)
    ELSE Outcome("raise", None, exc, FALSE, "none", "none", cand)

RECURSIVE batch_loop_skipping(_, _, _, _)
batch_loop_skipping(res, new_points, i, max_tries) ==
    IF ~(i < max_tries)
    THEN Outcome("random", None, "none", FALSE, "none", "duplicates", None)
    ELSE LET new_config_cs == skopt2config(new_points[i + 1])
             out == IF is_valid_configuration(new_config_cs)
                       /\ NotEncountered(res, new_config_cs)
                    THEN Outcome("return", new_config_cs, "none", FALSE,
                                 "batch", "none", new_config_cs)
                    ELSE batch_loop_skipping(res, new_points, i + 1,
                                             max_tries)
         IN  [out EXCEPT !.decoded = <<i + 1>> \o @]

\* lines 113-120, the while loop over the batch; i is Python's 0-based
\* index, so new_points[i] of the code is new_points[i + 1] here
RECURSIVE batch_loop(_, _, _, _)
batch_loop(res, new_points, i, max_tries) ==
    IF ~(i < max_tries)
    THEN Outcome("random", None, "none", FALSE, "none", "duplicates", None)
    ELSE LET new_config_cs == skopt2config(new_points[i + 1])
             out == IF ~is_valid_configuration(new_config_cs)
                    THEN except_clause("ValueError", "invalid", new_config_cs)
                    ELSE IF NotEncountered(res, new_config_cs)
                    THEN Outcome("return", new_config_cs, "none", FALSE,
                                 "batch", "none", new_config_cs)
                    ELSE batch_loop(res, new_points, i + 1, max_tries)
         IN  [out EXCEPT !.decoded = <<i + 1>> \o @]

first_try_invalid_to_batch(res, ask1) ==
    IF ask1.exc # "none" THEN except_clause(ask1.exc, "ask_error", None)
    ELSE LET new_config_cs == skopt2config(ask1.points[1])
         IN  IF is_valid_configuration(new_config_cs)
                /\ NotEncountered(res, new_config_cs)
             THEN Outcome("return", new_config_cs, "none", FALSE, "single",
                          "none", new_config_cs)
             ELSE Outcome("batch", None, "none", FALSE, "none", "none",
                          new_config_cs)

\* lines 104-110: the single candidate; "batch" when line 111 is reached
first_try(res, ask1) ==
    IF ask1.exc # "none" THEN except_clause(ask1.exc, "ask_error", None)
    ELSE LET new_config_cs == skopt2config(ask1.points[1])
         IN  IF ~is_valid_configuration(new_config_cs)
             THEN except_clause("ValueError", "invalid", new_config_cs)
             ELSE IF NotEncountered(res, new_config_cs)
             THEN Outcome("return", new_config_cs, "none", FALSE, "single",
                          "none", new_config_cs)
             ELSE Outcome("batch", None, "none", FALSE, "none", "none",
                          new_config_cs)

batch_try_from_first(res, askN, max_tries) ==
    IF askN.exc # "none" THEN except_clause(askN.exc, "ask_error", None)
    ELSE batch_loop(res, askN.points, 0, max_tries)

\* lines 111-120: the batch of max_tries candidates
batch_try(res, askN, max_tries) ==
    IF askN.exc # "none" THEN except_clause(askN.exc, "ask_error", None)
    ELSE batch_loop(res, askN.points, 1, max_tries)

\* every way the try statement can end on a store res, for max_tries up
\* to most
try_outcomes(res, most) ==
    UNION {IF first_try(res, ask1).kind # "batch"
           THEN {[first_try(res, ask1) EXCEPT !.asks = <<ask1>>]}
           ELSE UNION {{[batch_try(res, askN, max_tries)
                            EXCEPT !.asks = <<ask1, askN>>] :
                          askN \in AskOutcomes(max_tries)} :
                       max_tries \in 1..most} :
           ask1 \in AskOutcomes(1)}

----------------------------------------------------------------------------
(* Writes to the store *)

record_new_dropped(res, config) == res

\* self._results[json.dumps(new_config)] = 0       (lines 109, 118, 146)
record_new(res, config) == DictSet(res, json_dumps(config), 0)

try_results_eager(res, out) ==
    IF out.cand # None THEN record_new(res, out.cand) ELSE res

\* the store after the try statement: written only on the return paths
try_results(res, out) ==
    IF out.kind = "return" THEN record_new(res, out.config) ELSE res

\* default_config, line 133: unconditional write of 0
default_config_results(res) ==
    DictSet(res, json_dumps(get_default_configuration), 0)

update_results_front(res, config, reward) ==
    <<<<json_dumps(config), reward>>>>
    \o SelectSeq(res, LAMBDA e : e[1] # json_dumps(config))

update_results_negated(res, config, reward) ==
    DictSet(res, json_dumps(config), -reward)

update_results_reinsert(res, config, reward) ==
    Append(SelectSeq(res, LAMBDA e : e[1] # json_dumps(config)),
           <<json_dumps(config), reward>>)

\* update, line 152
update_results(res, config, reward) == DictSet(res, json_dumps(config), reward)

tell_value_unsigned(reward) == reward

\* update, line 153: the value handed to tell
tell_value(reward) == -reward

----------------------------------------------------------------------------
(* Bookkeeping of what the caller saw *)

Returned(name, config, from) ==
    /\ pc' = "idle"
    /\ op' = name
    /\ ret' = config
    /\ raised' = "none"
    /\ issued' = issued \cup {config}
    /\ nGet' = IF name = "get_config" THEN nGet + 1 ELSE nGet
    /\ via' = from
    /\ arg' = None
    /\ new_config' = None

\* the state after construction
Constructed ==
    /\ results = <<>>
    /\ told = <<>>
    /\ new_config = None
    /\ op = "init"
    /\ ret = None
    /\ raised = "none"
    /\ warned = FALSE
    /\ pre = <<>>
    /\ arg = None
    /\ issued = {}
    /\ passed = {}
    /\ calls = 0
    /\ nGet = 0
    /\ via = "none"
    /\ why = "none"
    /\ trace = NoTrace
    /\ onlyGet = TRUE
    /\ threads = [t \in Threads |-> IdleThread]
    /\ overlap = FALSE
    /\ nHanded = 0

\* the searcher as constructed over the space of this model
Init ==
    /\ configspace = TheSpace
    /\ bayes_optimizer = skopt_hpspace(TheSpace).dims
    /\ init_raised = skopt_hpspace(TheSpace).exc
    /\ Constructed
    /\ pc = "idle"

----------------------------------------------------------------------------
(* Operations.  The scheduler serializes its calls: a call starts only     *)
(* when pc = "idle".  random_config's rejection loop is the one loop with  *)
(* no bound, so each of its iterations is a step of its own.               *)

no_results_never(res) == FALSE

\* line 101: no hyperparams have been tried yet
no_results(res) == Len(res) = 0

\* the outcomes as the model keeps them: with the optimizer's answers, or
\* without them, where outcomes that differ in nothing else are one
Kept(keep, outs) ==
    IF keep THEN outs
    ELSE {[o EXCEPT !.asks = <<>>, !.decoded = <<>>] : o \in outs}

\* get_config(max_tries), lines 101-123, up to the call of random_config;
\* keep says whether the optimizer's answers are kept in trace
get_config_call(keep) ==
    /\ UNCHANGED <<configspace, bayes_optimizer, init_raised, threads, overlap,
                   nHanded>>
    /\ pc = "idle"
    /\ calls < MaxCalls
    /\ calls' = calls + 1
    /\ pre' = results
    /\ UNCHANGED <<told, passed, onlyGet>>
    /\ IF no_results(results)
       THEN /\ results' = default_config_results(results)
            /\ Returned("get_config", get_default_configuration, "default")
            /\ warned' = FALSE
            /\ why' = "none"
            /\ trace' = NoTrace
       ELSE \E out \in Kept(keep, try_outcomes(results,
                                   IF keep THEN MaxBatch ELSE MaxTries)) :
              /\ warned' = out.warned
              /\ why' = out.why
              /\ trace' = [asks |-> out.asks, decoded |-> out.decoded]
              /\ results' = try_results(results, out)
              /\ CASE out.kind = "return" ->
                        Returned("get_config", out.config, out.via)
                   [] out.kind = "raise" ->
                        /\ pc' = "idle"
                        /\ op' = "get_config"
                        /\ ret' = None
                        /\ raised' = out.exc
                        /\ via' = "none"
                        /\ arg' = None
                        /\ UNCHANGED <<issued, nGet, new_config>>
                   [] out.kind = "random" ->
                        \* line 123 calls random_config, whose line 143
                        \* draws the first sample
                        /\ pc' = "random_config"
                        /\ op' = "get_config"
                        /\ ret' = None
                        /\ raised' = "none"
                        /\ via' = "none"
                        /\ arg' = None
                        /\ new_config' \in sample_configuration
                        /\ UNCHANGED <<issued, nGet>>

get_config == get_config_call(FALSE)

\* the same call, with the optimizer's answers kept
get_config_traced == get_config_call(TRUE)

\* default_config(), lines 131-134, called by the scheduler
default_config ==
    /\ UNCHANGED <<configspace, bayes_optimizer, init_raised, threads, overlap,
                   nHanded>>
    /\ pc = "idle"
    /\ calls < MaxCalls
    /\ calls' = calls + 1
    /\ pre' = results
    /\ results' = default_config_results(results)
    /\ Returned("default_config", get_default_configuration, "default")
    /\ warned' = FALSE
    /\ why' = "none"
    /\ trace' = NoTrace
    /\ onlyGet' = FALSE
    /\ UNCHANGED <<told, passed>>

\* random_config(), line 143, called by the scheduler: the first sample
random_config ==
    /\ UNCHANGED <<configspace, bayes_optimizer, init_raised, threads, overlap,
                   nHanded>>
    /\ pc = "idle"
    /\ calls < MaxCalls
    /\ calls' = calls + 1
    /\ pre' = results
    /\ pc' = "random_config"
    /\ op' = "random_config"
    /\ ret' = None
    /\ raised' = "none"
    /\ warned' = FALSE
    /\ via' = "none"
    /\ why' = "none"
    /\ trace' = NoTrace
    /\ onlyGet' = FALSE
    /\ new_config' \in sample_configuration
    /\ arg' = None
    /\ UNCHANGED <<results, told, issued, passed, nGet>>

\* random_config, lines 144-145: the sample is in the store, draw another
random_config_resample ==
    /\ UNCHANGED <<configspace, bayes_optimizer, init_raised, threads, overlap,
                   nHanded>>
    /\ pc = "random_config"
    /\ ~NotEncountered(results, new_config)
    /\ new_config' \in sample_configuration
    /\ UNCHANGED <<results, told, pc, op, ret, raised, warned, pre, arg,
                   issued, passed, calls, nGet, via, why, trace, onlyGet>>

\* random_config, lines 144, 146-147: the sample is new, record and return
random_config_return ==
    /\ UNCHANGED <<configspace, bayes_optimizer, init_raised, threads, overlap,
                   nHanded>>
    /\ pc = "random_config"
    /\ NotEncountered(results, new_config)
    /\ results' = record_new(results, new_config)
    /\ Returned(op, new_config, "random")
    /\ UNCHANGED <<told, warned, pre, passed, calls, why, trace, onlyGet>>

\* the configurations a scheduler reports on: the ones it was handed,
\* possibly as a dict listing the same items in another order
UpdateArgs == UNION {Reorderings(c) : c \in issued}

\* update(config, reward), lines 152-154
update ==
    /\ UNCHANGED <<configspace, bayes_optimizer, init_raised, threads, overlap,
                   nHanded>>
    /\ pc = "idle"
    /\ calls < MaxCalls
    /\ calls' = calls + 1
    /\ \E config \in UpdateArgs, reward \in Rewards, tell \in TellOutcomes :
         LET point == config2skopt(config)
         IN  /\ pre' = results
             /\ results' = update_results(results, config, reward)
             /\ arg' = <<config, reward>>
             /\ passed' = passed \cup {config}
             /\ onlyGet' = (onlyGet /\ config \in issued)
             /\ op' = "update"
             /\ ret' = None
             /\ warned' = FALSE
             /\ via' = "none"
             /\ why' = "none"
             /\ trace' = NoTrace
             /\ IF point.exc # "none"
                THEN /\ raised' = point.exc
                     /\ told' = told
                ELSE IF tell # "none"
                THEN /\ raised' = tell
                     /\ told' = told
                ELSE /\ raised' = "none"
                     /\ told' = Append(told, <<point.point, tell_value(reward)>>)
             /\ UNCHANGED <<pc, new_config, issued, nGet>>

Next ==
    \/ get_config
    \/ default_config
    \/ random_config
    \/ random_config_resample
    \/ random_config_return
    \/ update

Spec == Init /\ [][Next]_vars

\* once entered, the rejection loop keeps running: the call is one thread
\* of control and nothing suspends it
FairSpec ==
    Spec /\ WF_vars(random_config_resample) /\ WF_vars(random_config_return)

----------------------------------------------------------------------------
(* get_config as a function of the store it finds and of the optimizer's   *)
(* answers: one traced call on every store the earlier calls can have left *)

\* the stores: distinct keys of valid configurations, in any order of
\* insertion, each with a reward or still 0
Stores ==
    {st \in UNION {[1..n -> {json_dumps(c) : c \in SpaceConfigs} \X Rewards] :
                     n \in 0..Cardinality(SpaceConfigs)} :
        \A i, j \in DOMAIN st : st[i][1] = st[j][1] => i = j}

\* one call is left to the scheduler
TryInit ==
    /\ configspace = TheSpace
    /\ bayes_optimizer = skopt_hpspace(TheSpace).dims
    /\ init_raised = skopt_hpspace(TheSpace).exc
    /\ results \in Stores
    /\ told = <<>>
    /\ new_config = None
    /\ op = "init"
    /\ ret = None
    /\ raised = "none"
    /\ warned = FALSE
    /\ pre = <<>>
    /\ arg = None
    /\ issued = {}
    /\ passed = {}
    /\ calls = MaxCalls - 1
    /\ nGet = 0
    /\ via = "none"
    /\ why = "none"
    /\ trace = NoTrace
    /\ onlyGet = TRUE
    /\ threads = [t \in Threads |-> IdleThread]
    /\ overlap = FALSE
    /\ nHanded = 0
    /\ pc = "idle"

TryNext ==
    \/ get_config_traced
    \/ random_config_resample
    \/ random_config_return

TrySpec == TryInit /\ [][TryNext]_vars

----------------------------------------------------------------------------
(* get_config and random_config called by callers that do not wait for one *)
(* another.  The class holds no lock, so a caller can be overtaken between *)
(* any two statements: each step below is one statement, or a run of       *)
(* statements that touch only the call's local variables.  A pc names the  *)
(* source line the call executes next.                                     *)

\* what the searcher's own scheduler-facing bookkeeping keeps in these steps
SerialVars ==
    <<configspace, bayes_optimizer, init_raised, told, pc, new_config, op,
      ret, raised, warned, pre, arg, passed, nGet, via, why, trace, onlyGet>>

\* the call of thread t moves on, touching nothing shared
Local(t, rec) ==
    /\ threads' = [threads EXCEPT ![t] = rec]
    /\ UNCHANGED <<SerialVars, results, issued, calls, overlap, nHanded>>

\* line 123 and the except clause of line 121: on to random_config
ToRandom(t) ==
    Local(t, [threads[t] EXCEPT !.pc = "rc_143", !.new_config = None,
                                !.new_points = <<>>, !.i = 0])

\* an exception other than ValueError leaves the call
Raise(t) == Local(t, IdleThread)

\* a caller starts get_config or random_config
t_call(t) ==
    /\ threads[t].pc = "idle"
    /\ calls < MaxConcCalls
    /\ calls' = calls + 1
    /\ overlap' = (overlap \/ \E u \in Threads \ {t} : threads[u].pc # "idle")
    /\ \E name \in {"get_config", "random_config"} :
         threads' = [threads EXCEPT ![t] =
                        [IdleThread EXCEPT
                            !.op = name,
                            !.pc = IF name = "get_config" THEN "gc_101"
                                   ELSE "rc_143"]]
    /\ UNCHANGED <<SerialVars, results, issued, nHanded>>

\* line 101: the test of the store's length
gc_101(t) ==
    /\ threads[t].pc = "gc_101"
    /\ Local(t, [threads[t] EXCEPT
                    !.pc = IF no_results(results) THEN "dc_133"
                           ELSE "gc_104"])

\* lines 104-107: the single ask, decoded and validated
gc_104(t) ==
    /\ threads[t].pc = "gc_104"
    /\ \E ask1 \in AskOutcomes(1) :
         IF ask1.exc = "ValueError" THEN ToRandom(t)
         ELSE IF ask1.exc # "none" THEN Raise(t)
         ELSE IF ~is_valid_configuration(skopt2config(ask1.points[1]))
         THEN ToRandom(t)
         ELSE Local(t, [threads[t] EXCEPT
                           !.pc = "gc_108",
                           !.new_config = skopt2config(ask1.points[1])])

\* line 108: the membership test on the single candidate
gc_108(t) ==
    /\ threads[t].pc = "gc_108"
    /\ Local(t, [threads[t] EXCEPT
                    !.pc = IF NotEncountered(results, threads[t].new_config)
                           THEN "gc_109" ELSE "gc_111"])

\* lines 111-112: the batch ask
gc_111(t) ==
    /\ threads[t].pc = "gc_111"
    /\ \E max_tries \in 1..MaxTries :
         \E askN \in AskOutcomes(max_tries) :
            IF askN.exc = "ValueError" THEN ToRandom(t)
            ELSE IF askN.exc # "none" THEN Raise(t)
            ELSE Local(t, [threads[t] EXCEPT
                              !.pc = "gc_113", !.new_config = None,
                              !.new_points = askN.points, !.i = 1,
                              !.max_tries = max_tries])

\* lines 113-116: the loop test, and the next candidate decoded and
\* validated
gc_113(t) ==
    /\ threads[t].pc = "gc_113"
    /\ IF ~(threads[t].i < threads[t].max_tries) THEN ToRandom(t)
       ELSE LET new_config_cs ==
                    skopt2config(threads[t].new_points[threads[t].i + 1])
            IN  IF ~is_valid_configuration(new_config_cs) THEN ToRandom(t)
                ELSE Local(t, [threads[t] EXCEPT
                                  !.pc = "gc_117",
                                  !.new_config = new_config_cs])

\* lines 117 and 120: the membership test on a candidate of the batch
gc_117(t) ==
    /\ threads[t].pc = "gc_117"
    /\ Local(t, IF NotEncountered(results, threads[t].new_config)
                THEN [threads[t] EXCEPT !.pc = "gc_118"]
                ELSE [threads[t] EXCEPT !.pc = "gc_113",
                                        !.i = threads[t].i + 1])

\* line 143: random_config's first sample
rc_143(t) ==
    /\ threads[t].pc = "rc_143"
    /\ \E sample \in sample_configuration :
         Local(t, [threads[t] EXCEPT !.pc = "rc_144", !.new_config = sample])

rc_144_no_test(t) ==
    /\ threads[t].pc = "rc_144"
    /\ Local(t, [threads[t] EXCEPT !.pc = "rc_146"])

\* lines 144-145: the membership test of the rejection loop, and the next
\* sample when the key is in the store
rc_144(t) ==
    /\ threads[t].pc = "rc_144"
    /\ IF NotEncountered(results, threads[t].new_config)
       THEN Local(t, [threads[t] EXCEPT !.pc = "rc_146"])
       ELSE \E sample \in sample_configuration :
              Local(t, [threads[t] EXCEPT !.new_config = sample])

\* the caller of thread t is handed config, whose record line from wrote
Handed(t, config, from) ==
    /\ threads' = [threads EXCEPT ![t] =
                      [IdleThread EXCEPT !.ret = config, !.from = from]]
    /\ issued' = issued \cup {config}
    /\ nHanded' = nHanded + 1
    /\ UNCHANGED <<SerialVars, calls, overlap>>

\* lines 109-110, 118-119, 146-147: the write of 0 under the key that the
\* membership test found absent, and the return
t_write(t) ==
    /\ threads[t].pc \in {"gc_109", "gc_118", "rc_146"}
    /\ results' = record_new(results, threads[t].new_config)
    /\ Handed(t, threads[t].new_config, threads[t].pc)

\* lines 102, 131-134: default_config, called by get_config
dc_133(t) ==
    /\ threads[t].pc = "dc_133"
    /\ results' = default_config_results(results)
    /\ Handed(t, get_default_configuration, "dc_133")

ConcNext ==
    \E t \in Threads :
        \/ t_call(t)
        \/ gc_101(t)
        \/ gc_104(t)
        \/ gc_108(t)
        \/ gc_111(t)
        \/ gc_113(t)
        \/ gc_117(t)
        \/ rc_143(t)
        \/ rc_144(t)
        \/ t_write(t)
        \/ dc_133(t)

ConcSpec == Init /\ [][ConcNext]_vars

----------------------------------------------------------------------------
(* The constructor on its own: any space of up to MaxHps hyperparameters   *)

\* the sequences of up to n hyperparameter objects
Spaces(n) == UNION {[1..k -> HpObjects] : k \in 1..n}

CtorInit ==
    /\ configspace \in Spaces(MaxHps)
    /\ bayes_optimizer = None
    /\ init_raised = "none"
    /\ Constructed
    /\ pc = "new"

\* SKoptSearcher(configspace), lines 64-85
construct ==
    /\ pc = "new"
    /\ bayes_optimizer' = skopt_hpspace(configspace).dims
    /\ init_raised' = skopt_hpspace(configspace).exc
    /\ pc' = IF skopt_hpspace(configspace).exc = "none" THEN "idle"
             ELSE "failed"
    /\ UNCHANGED <<configspace, results, told, new_config, op, ret, raised,
                   warned, pre, arg, issued, passed, calls, nGet, via, why,
                   trace, onlyGet, threads, overlap, nHanded>>

CtorSpec == CtorInit /\ [][construct]_vars

----------------------------------------------------------------------------
(* Properties *)

IssuingOps == {"get_config", "default_config", "random_config"}

KeysOf(configs) == {json_dumps(c) : c \in configs}

\* every configuration of the space is already a key of the store
Exhausted(res) == \A c \in sample_configuration : ~NotEncountered(res, c)

\* C1: a configuration returned by random_config, or by get_config on a
\* non-empty store, was absent from the store when the call started (in any
\* order of its fields) and its key is present when the call returns.
C1_Novelty ==
    (/\ pc = "idle"
     /\ ret # None
     /\ op = "random_config" \/ (op = "get_config" /\ pre # <<>>))
    => /\ \A c \in Reorderings(ret) : json_dumps(c) \notin Keys(pre)
       /\ json_dumps(ret) \in Keys(results)

\* get_config returned an optimizer candidate while two configurations
\* were issued and none of them reported on
C1_Witness ==
    /\ pc = "idle" /\ op = "get_config" /\ ret # None
    /\ via \in {"single", "batch"}
    /\ Len(pre) >= 2 /\ passed = {}

\* C2: a call that is in random_config's rejection loop when every
\* configuration of the space is in the store terminates.
C2_RandomConfigTerminates ==
    (pc = "random_config" /\ Exhausted(results)) ~> (pc = "idle")

\* C3: every configuration returned by default_config, random_config or
\* get_config is a valid configuration of the space.
C3_ReturnedValid ==
    (pc = "idle" /\ ret # None) => ret \in SpaceConfigs

\* get_config decoded an invalid candidate and returned another configuration
C3_Witness ==
    /\ pc = "idle" /\ op = "get_config" /\ ret # None
    /\ why = "invalid" /\ via = "random"

\* C4: after update(c, r) the store maps c's key to r itself.
C4_UpdateStoresReward ==
    op = "update" =>
        /\ json_dumps(arg[1]) \in Keys(results)
        /\ DictGet(results, json_dumps(arg[1])) = arg[2]

\* update(c, 0) on a record that held reward 1
C4_Witness ==
    /\ op = "update" /\ arg[2] = 0
    /\ json_dumps(arg[1]) \in Keys(pre)
    /\ DictGet(pre, json_dumps(arg[1])) = 1

\* C5: default_config on a store that already holds the default's key
\* returns the default and leaves the store as it was.
C5_DefaultIdempotent ==
    (/\ op = "default_config"
     /\ json_dumps(get_default_configuration) \in Keys(pre))
    => /\ ret = get_default_configuration
       /\ results = pre

\* C6: while the scheduler only calls get_config and update on what it was
\* handed, the n configurations returned have n distinct keys, and once each
\* has been reported on the store holds exactly n records, each written by
\* update.
C6_DistinctAndCounted ==
    onlyGet =>
        /\ Cardinality(KeysOf(issued)) = nGet
        /\ (pc = "idle" /\ passed = issued) =>
              /\ Len(results) = nGet
              /\ Keys(results) = KeysOf(passed)

\* two get_config calls, both configurations reported on
C6_Witness ==
    /\ onlyGet /\ pc = "idle" /\ op = "update"
    /\ nGet = 2 /\ passed = issued /\ Len(results) = 2

\* C7: update with a copy of an issued configuration that lists the same
\* items in another order completes the existing record, adding none.
C7_OrderIndependentKey ==
    (op = "update" /\ \E c \in issued : DictEq(c, arg[1]))
    => Len(results) = Len(pre)

\* C8: no error of the optimizer's ask or tell step reaches the caller.
C8_OptimizerFailureNotFatal == raised \notin OptimizerErrors

\* C9: every key of the store is the key of a configuration returned to the
\* caller or passed to update; an issuing call that is still running or has
\* failed has written nothing, and one that returned has added its
\* configuration's key and nothing else.
C9_NoStrayEntries ==
    /\ Keys(results) \subseteq KeysOf(issued \cup passed)
    /\ (op \in IssuingOps /\ ret = None) => results = pre
    /\ (op \in IssuingOps /\ ret # None) =>
           Keys(results) = Keys(pre) \cup {json_dumps(ret)}

\* get_config failed with the optimizer's error on a store of two records
C9_Witness ==
    /\ op = "get_config" /\ raised = "RuntimeError"
    /\ Len(results) >= 2

\* C10: no step removes a key from the store or moves it: every record
\* keeps its position and its key.
C10_Monotone ==
    [][\A i \in DOMAIN results :
          i \in DOMAIN results' /\ results'[i][1] = results[i][1]]_vars

\* update overwrote the reward of one of two records
C10_Witness ==
    /\ op = "update" /\ Len(pre) >= 2
    /\ Len(results) = Len(pre) /\ results # pre

\* the records of the store that update has written
CompleteKeys == Keys(results) \cap KeysOf(passed)

\* C11: the store tells a pending record from a complete one: a record that
\* update has written never reads the same as one that was only issued.
C11_PendingDistinguishable ==
    \A i, j \in DOMAIN results :
        (results[i][1] \in CompleteKeys /\ results[j][1] \notin CompleteKeys)
        => results[i][2] # results[j][2]

\* C12: every returned configuration encodes (config2skopt succeeds) and
\* decoding the encoded point gives the configuration back.
C12_RoundTrip ==
    (pc = "idle" /\ ret # None) =>
        /\ config2skopt(ret).exc = "none"
        /\ skopt2config(config2skopt(ret).point) = ret

\* C19: a successful update tells the optimizer the encoded configuration
\* with the negated reward and stores the reward itself; the store never
\* holds a negated reward.
C19_SignAtBoundary ==
    /\ \A i \in DOMAIN results : results[i][2] \in Rewards \cup {0}
    /\ (op = "update" /\ raised = "none") =>
          /\ told # <<>>
          /\ told[Len(told)] = <<config2skopt(arg[1]).point, 0 - arg[2]>>
          /\ DictGet(results, json_dumps(arg[1])) = arg[2]

\* update(c, 1) went through: the optimizer was told -1, the store holds 1
C19_Witness ==
    /\ op = "update" /\ raised = "none" /\ arg[2] = 1
    /\ told[Len(told)][2] = 0 - 1

\* C20: the observations told to the optimizer are one (encoded
\* configuration, negated reward) pair per complete record of the store.
C20_LogInStep ==
    /\ Len(told) = Cardinality(CompleteKeys)
    /\ \A i \in DOMAIN told :
          \E c \in passed :
              /\ config2skopt(c).exc = "none"
              /\ told[i] = <<config2skopt(c).point,
                             0 - DictGet(results, json_dumps(c))>>

\* the kinds of hyperparameter the searcher knows
RecognizedTypes ==
    {"UniformIntegerHyperparameter", "UniformFloatHyperparameter",
     "CategoricalHyperparameter", "OrdinalHyperparameter"}

----------------------------------------------------------------------------
(* The fallback chain of get_config, on the traced call                    *)

\* the traced call went into the try statement
Tried == op = "get_config" /\ trace.asks # <<>>

FirstAsk == trace.asks[1]

BatchAsk == trace.asks[2]

\* the traced call got a batch from the optimizer
Batched == Tried /\ Len(trace.asks) = 2 /\ BatchAsk.exc = "none"

FirstConfig == skopt2config(FirstAsk.points[1])

BatchConfig(j) == skopt2config(BatchAsk.points[j])

\* valid and not a key of the store the call found
Qualifies(config) ==
    is_valid_configuration(config) /\ NotEncountered(pre, config)

\* valid and already a key of the store the call found
Duplicate(config) ==
    is_valid_configuration(config) /\ ~NotEncountered(pre, config)

\* C14: get_config on an empty store returns the default configuration,
\* records it with 0 and does not ask the optimizer, so the first
\* configuration a fresh searcher issues is the default; the optimizer is
\* asked only by calls that found a non-empty store
C14_EmptyStoreDefault ==
    /\ (op = "get_config" /\ pre = <<>>) =>
          /\ trace.asks = <<>>
          /\ ret = get_default_configuration
          /\ via = "default"
          /\ results = <<<<json_dumps(get_default_configuration), 0>>>>
          /\ issued = {get_default_configuration}
          /\ nGet = 1
          /\ raised = "none"
          /\ pc = "idle"
    /\ trace.asks # <<>> => pre # <<>>

C14_Witness ==
    /\ op = "get_config"
    /\ pre = <<>>
    /\ ret = get_default_configuration
    /\ trace.asks = <<>>

\* C15, as the specification states it: a structurally invalid single
\* candidate sends get_config on to the batch step
C15_InvalidGoesToBatch ==
    (Tried /\ FirstAsk.exc = "none" /\ ~is_valid_configuration(FirstConfig))
        => Len(trace.asks) = 2

\* C15, amended: the optimizer is first asked for exactly one candidate; a
\* valid novel candidate is recorded with 0 and returned; a valid candidate
\* whose key is in the store leads to the batch ask; a structurally invalid
\* candidate leads to no batch ask but, with a warning, straight to
\* random_config; without an exception random_config is reached only after
\* a batch whose examined candidates were all in the store
C15_FallbackOrder ==
    Tried =>
        /\ FirstAsk.n = 1
        /\ Len(trace.asks) \in {1, 2}
        /\ FirstAsk.exc = "none" =>
              /\ Qualifies(FirstConfig) =>
                    /\ Len(trace.asks) = 1
                    /\ via = "single"
                    /\ ret = FirstConfig
                    /\ results = record_new(pre, FirstConfig)
              /\ Duplicate(FirstConfig) =>
                    /\ Len(trace.asks) = 2
                    /\ BatchAsk.n \in 1..MaxBatch
              /\ ~is_valid_configuration(FirstConfig) =>
                    /\ Len(trace.asks) = 1
                    /\ why = "invalid"
                    /\ warned
                    /\ raised = "none"
                    /\ via \in {"none", "random"}
        /\ via = "random" => why # "none"
        /\ why = "duplicates" =>
              /\ Batched
              /\ ~warned
              /\ \A j \in 2..BatchAsk.n : Duplicate(BatchConfig(j))

C15_Witness ==
    /\ Tried
    /\ FirstAsk.exc = "none"
    /\ ~is_valid_configuration(FirstConfig)
    /\ Len(trace.asks) = 1
    /\ warned
    /\ via = "random"

\* C16, as the specification states it: the batch is decoded starting with
\* its first candidate, so with max_tries = 1 the one candidate is examined
C16_BatchFromFirst ==
    Batched => trace.decoded # <<>> /\ trace.decoded[1] = 1

\* C16, amended: the batch is decoded in order starting with its second
\* candidate, the first being taken as tried by the single ask; at most
\* max_tries - 1 candidates are decoded, none when max_tries = 1; decoding
\* stops at the first candidate that is not a valid duplicate: a valid
\* novel one is recorded with 0 and returned, an invalid one ends the try;
\* when every decoded candidate is a duplicate the call goes on to
\* random_config
C16_BatchFromSecond ==
    Batched =>
        LET d == trace.decoded
        IN  /\ Len(d) <= BatchAsk.n - 1
            /\ \A i \in DOMAIN d : d[i] = i + 1
            /\ \A i \in 1..(Len(d) - 1) : Duplicate(BatchConfig(d[i]))
            /\ Len(d) = 0 => why = "duplicates"
            /\ Len(d) > 0 =>
                  LET last == BatchConfig(d[Len(d)])
                  IN  /\ Qualifies(last) =>
                            /\ via = "batch"
                            /\ ret = last
                            /\ results = record_new(pre, last)
                      /\ Duplicate(last) =>
                            /\ Len(d) = BatchAsk.n - 1
                            /\ why = "duplicates"
                      /\ ~is_valid_configuration(last) => why = "invalid"

C16_Witness ==
    /\ Batched
    /\ BatchAsk.n = MaxBatch
    /\ Len(trace.decoded) = MaxBatch - 1
    /\ ~is_valid_configuration(BatchConfig(1))
    /\ via = "batch"
    /\ ret = BatchConfig(MaxBatch)

\* C17, as the specification states it: an invalid candidate of the batch
\* is skipped, and a valid novel candidate that follows it is returned
C17_InvalidSkipped ==
    Batched =>
        \A k \in 3..BatchAsk.n :
            (/\ \A j \in 2..(k - 1) : ~Qualifies(BatchConfig(j))
             /\ \E j \in 2..(k - 1) : ~is_valid_configuration(BatchConfig(j))
             /\ Qualifies(BatchConfig(k)))
                => via = "batch" /\ ret = BatchConfig(k)

\* C17, amended: a structurally invalid candidate met in the batch ends the
\* examination of the batch: it is the last candidate decoded, the call
\* warns and goes on to random_config, whatever follows it in the batch,
\* and what it returns is random_config's valid novel sample
C17_InvalidEndsBatch ==
    (Batched /\ \E i \in DOMAIN trace.decoded :
                   ~is_valid_configuration(BatchConfig(trace.decoded[i])))
        => /\ ~is_valid_configuration(
                   BatchConfig(trace.decoded[Len(trace.decoded)]))
           /\ \A i \in 1..(Len(trace.decoded) - 1) :
                   Duplicate(BatchConfig(trace.decoded[i]))
           /\ why = "invalid"
           /\ warned
           /\ raised = "none"
           /\ via \in {"none", "random"}
           /\ pc = "idle" =>
                 /\ via = "random"
                 /\ Qualifies(ret)
                 /\ results = record_new(pre, ret)

C17_Witness ==
    /\ Batched
    /\ BatchAsk.n = 3
    /\ trace.decoded = <<2>>
    /\ ~is_valid_configuration(BatchConfig(2))
    /\ Qualifies(BatchConfig(3))
    /\ via = "random"
    /\ ret # BatchConfig(3)

\* C18: whenever get_config goes on to random_config because no candidate
\* qualified, invalid or duplicate, it warns and raises nothing
C18_FallbackWarns ==
    (op = "get_config" /\ why # "none") => warned /\ raised = "none"

\* C21: update(c, r) changes only the record under c's key, adding it at
\* the end if absent: every other record keeps its reward and every record
\* its place; a call of get_config or random_config that returns adds
\* exactly one record, the returned configuration's with 0, at the end, and
\* one that has not returned adds none; neither changes an existing record
C21_Frame ==
    /\ op = "update" =>
          LET k == json_dumps(arg[1])
          IN  /\ \A i \in DOMAIN pre :
                    /\ i \in DOMAIN results
                    /\ results[i][1] = pre[i][1]
                    /\ pre[i][1] # k => results[i][2] = pre[i][2]
              /\ Len(results) = IF k \in Keys(pre) THEN Len(pre)
                                ELSE Len(pre) + 1
              /\ k \notin Keys(pre) => results[Len(results)] = <<k, arg[2]>>
    /\ op \in {"get_config", "random_config"} =>
          /\ \A i \in DOMAIN pre : i \in DOMAIN results /\ results[i] = pre[i]
          /\ ret = None => results = pre
          /\ ret # None =>
                /\ Len(results) = Len(pre) + 1
                /\ results[Len(results)] = <<json_dumps(ret), 0>>
                /\ json_dumps(ret) \notin Keys(pre)

\* update gave a reward to the first of three issued configurations, the
\* other two still at 0
C21_Witness ==
    /\ op = "update"
    /\ Len(pre) = 3
    /\ json_dumps(arg[1]) = pre[1][1]
    /\ arg[2] # pre[1][2]
    /\ results[2] = pre[2] /\ results[3] = pre[3]

\* the lines that write a record after a membership test
TestedWrites == {"gc_109", "gc_118", "rc_146"}

\* C22: without a lock the membership test and the write are steps of their
\* own, and only calls that overlap can be handed the same configuration:
\* as long as every call was started with no other in progress, the
\* configurations handed out are distinct and each has its record
C22_SerializedNovel ==
    ~overlap =>
        /\ nHanded = Cardinality(issued)
        /\ Len(results) = nHanded
        /\ \A c \in issued : json_dumps(c) \in Keys(results)

\* after the default was handed out, two calls that overlapped, one of
\* random_config and one of get_config, both passed the membership test on
\* the same key and both returned the configuration, which has one record
C22_Witness ==
    /\ overlap
    /\ threads[1].from = "rc_146"
    /\ threads[2].from = "gc_109"
    /\ threads[1].ret = threads[2].ret
    /\ nHanded = 3
    /\ Cardinality(issued) = 2
    /\ Len(results) = 2

============================================================================
